---- MODULE Spec2Model ----
(***************************************************************************)
(* Model of the Sketch plugin "Sort Colors > Sort by Hue"                  *)
(* (sort-background-colors.sketchplugin/Contents/Sketch/plugin.js).        *)
(*                                                                         *)
(* The document is a store of layer objects (doc), indexed by identity.    *)
(* Parent/child links are the child lists: pageLayers for the page and the *)
(* field "layers" of an artboard.  A layer that is in no child list is     *)
(* detached.  sortByHue is followed statement group by statement group;    *)
(* pc is its position.                                                     *)
(*                                                                         *)
(* Color channels are integers in units of one half, so <<2, 2, 1>> is the *)
(* color (1.0, 1.0, 0.5).  The hue is invariant under this scaling.  For   *)
(* every color used here the chroma divides 60 * (channel difference), so  *)
(* the integer division in hueValue is the exact real quotient.            *)
(***************************************************************************)
EXTENDS Integers, Sequences, FiniteSets, TLC

VARIABLES
    pc,          \* position in sortByHue
    selection,   \* context.selection: layer ids
    doc,         \* the layer objects, by id
    pageLayers,  \* page.layers(): ids of the page's direct children
    layers,      \* local `layers`
    artboard,    \* local `artboard` (NullId for null)
    messages,    \* texts handed to document.showMessage, in order
    height,      \* local `height` of the layout pass
    lastFrame,   \* local `lastFrame`: id of the layer whose frame it is
    i,           \* index of the next element visited by the layout forEach
    doc0,        \* the layer objects as they were when the command started
    page0        \* page.layers() as it was when the command started

vars == <<pc, selection, doc, pageLayers, layers, artboard, messages, height,
          lastFrame, i, doc0, page0>>

-----------------------------------------------------------------------------
(* Bounds of the model *)

MaxLayers == 3

-----------------------------------------------------------------------------
(* Values *)

NullId == 0

Null == <<>>

Margin == 5

DoubleMargin == 10

NewArtboardSize == 600

Range(s) == {s[k] : k \in 1..Len(s)}

Max3(r, g, b) == IF r >= g /\ r >= b THEN r ELSE IF g >= b THEN g ELSE b

Min3(r, g, b) == IF r <= g /\ r <= b THEN r ELSE IF g <= b THEN g ELSE b

-----------------------------------------------------------------------------
(* Color model: constructLayerColor *)

\* Which arm of the r == max / g == max / b == max chain computes the hue.
hueBranch(r, g, b) ==
    LET max == Max3(r, g, b)
        min == Min3(r, g, b)
        chr == max - min
    IN  IF max > 0 /\ chr > 0
        THEN IF r = max THEN "r" ELSE IF g = max THEN "g" ELSE "b"
        ELSE "none"

hueValueSwapped(r, g, b) ==
    LET max == Max3(r, g, b)
        min == Min3(r, g, b)
        chr == max - min
        br  == hueBranch(r, g, b)
    IN  IF br = "r"
        THEN LET h == (60 * ((b - min) - (g - min))) \div chr
             IN  IF h < 0 THEN h + 360 ELSE h
        ELSE IF br = "g" THEN 120 + (60 * ((b - min) - (r - min))) \div chr
        ELSE IF br = "b" THEN 240 + (60 * ((r - min) - (g - min))) \div chr
        ELSE 0

hueValue(r, g, b) ==
    LET max == Max3(r, g, b)
        min == Min3(r, g, b)
        chr == max - min
        br  == hueBranch(r, g, b)
    IN  IF br = "r"
        THEN LET h == (60 * ((g - min) - (b - min))) \div chr
             IN  IF h < 0 THEN h + 360 ELSE h
        ELSE IF br = "g" THEN 120 + (60 * ((b - min) - (r - min))) \div chr
        ELSE IF br = "b" THEN 240 + (60 * ((r - min) - (g - min))) \div chr
        ELSE 0

-----------------------------------------------------------------------------
(* Background extractor: getLayerBackground, getLayersWithBackgroundColor *)

isKindOfClass(layer, class) == layer.kind = class

Return(v) == [threw |-> FALSE, value |-> v]

Throw == [threw |-> TRUE, value |-> Null]

\* fills()[0].color(): reading the first entry of an empty fill list raises.
firstFillColor(layer) ==
    IF Len(layer.fills) = 0 THEN Throw ELSE Return(layer.fills[1])

\* children.forEach(child => { if (shape) return child...color(); }): the
\* callback's return value is dropped by forEach; only an exception raised
\* while computing it leaves the loop.
forEachChild(children) ==
    IF \E k \in 1..Len(children) :
           /\ isKindOfClass(children[k], "MSShapeGroup")
           /\ firstFillColor(children[k]).threw
    THEN Throw
    ELSE Return(Null)

symbolMaster(layer) == [kind |-> "MSSymbolMaster", children |-> layer.children]

getLayerBackground(layer) ==
    IF isKindOfClass(layer, "MSShapeGroup")
    THEN firstFillColor(layer)
    ELSE IF isKindOfClass(layer, "MSSymbolInstance")
    THEN forEachChild(symbolMaster(layer).children)
    ELSE IF isKindOfClass(layer, "MSSymbolMaster")
    THEN forEachChild(layer.children)
    ELSE Return(Null)

getLayersWithBackgroundColor(d, ls) ==
    IF \E k \in 1..Len(ls) : getLayerBackground(d[ls[k]]).threw
    THEN Throw
    ELSE Return(SelectSeq(ls, LAMBDA id : getLayerBackground(d[id]).value # Null))

constructLayerColor(layer) ==
    LET color == getLayerBackground(layer).value
    IN  IF color = Null
        THEN Null
        ELSE LET r == color[1]
                 g == color[2]
                 b == color[3]
                 max == Max3(r, g, b)
                 min == Min3(r, g, b)
             IN  [chroma |-> max - min,
                  hue    |-> hueValue(r, g, b),
                  sat    |-> IF max > 0 THEN <<max - min, max>> ELSE <<0, 1>>,
                  val    |-> max,
                  luma100 |-> 30 * r + 59 * g + 11 * b,
                  red |-> r, green |-> g, blue |-> b]

getLayerHue(layer) ==
    LET color == constructLayerColor(layer)
    IN  IF color = Null THEN 0 ELSE color.hue

-----------------------------------------------------------------------------
(* Hue sorter: sortLayersByHue *)

compareDescending(d, a, b) == getLayerHue(d[b]) - getLayerHue(d[a])

compare(d, a, b) == getLayerHue(d[a]) - getLayerHue(d[b])

\* The results Array.prototype.sort may give: the permutations of ls that
\* are ordered by the comparator (the order of equal keys is not fixed).
sortLayersByHue(d, ls) ==
    {[k \in 1..Len(ls) |-> ls[f[k]]] : f \in
        {g \in Permutations(1..Len(ls)) :
            \A x, y \in 1..Len(ls) :
                x < y => compare(d, ls[g[x]], ls[g[y]]) <= 0}}

-----------------------------------------------------------------------------
(* Layout engine: the positioning pass of sortByHue *)

initialHeight(frame) == frame.height + DoubleMargin

newRowIgnoringWidth(last, frame, parentFrame) ==
    last.left + last.width + Margin > parentFrame.width - DoubleMargin

newRow(last, frame, parentFrame) ==
    last.left + last.width + Margin + frame.width > parentFrame.width - DoubleMargin

placeFirst(frame) == [frame EXCEPT !.top = Margin, !.left = Margin]

placeNewRowOnLast(last, frame) ==
    [frame EXCEPT !.left = Margin, !.top = last.top + Margin]

placeNewRow(last, frame) ==
    [frame EXCEPT !.left = Margin, !.top = last.top + last.height + Margin]

placeSameRow(last, frame) ==
    [frame EXCEPT !.left = last.left + last.width + Margin, !.top = last.top]

rowIncrementNoMargin(frame) == frame.height

rowIncrement(frame) == frame.height + Margin

-----------------------------------------------------------------------------
(* Orchestrator helpers *)

noSelectionNever(ls) == Len(ls) < 0

noSelection(ls) == Len(ls) < 1

\* MSArtboardGroup.new() with the name and frame sortByHue gives it, holding
\* the copies `kids`.
newArtboard(first, kids) ==
    [kind |-> "MSArtboardGroup", name |-> "Colors", fills |-> <<>>,
     children |-> <<>>, layers |-> kids,
     left |-> first.left, top |-> first.top,
     width |-> NewArtboardSize, height |-> NewArtboardSize]

removeFromParentKept(childList, ids) == childList

\* layer.removeFromParent() for every layer of ids, seen from one child list.
removeFromParent(childList, ids) ==
    SelectSeq(childList, LAMBDA id : id \notin ids)

-----------------------------------------------------------------------------
(* The documents and selections the command is started on *)

Yellow == <<2, 2, 1>>
Rose   == <<2, 0, 1>>
Green  == <<0, 2, 1>>
Violet == <<1, 0, 2>>
Grey   == <<1, 1, 1>>
Black  == <<0, 0, 0>>

Layer(kind, fills, children, w, h) ==
    [kind |-> kind, name |-> "", fills |-> fills, children |-> children,
     layers |-> <<>>, left |-> 0, top |-> 0, width |-> w, height |-> h]

Child(kind, fills) == [kind |-> kind, fills |-> fills]

LayerTemplates ==
    { Layer("MSShapeGroup", <<Yellow>>, <<>>, 40, 20),
      Layer("MSShapeGroup", <<Rose>>, <<>>, 40, 20),
      Layer("MSShapeGroup", <<Green, Yellow>>, <<>>, 40, 20),
      Layer("MSShapeGroup", <<Violet>>, <<>>, 300, 20),
      Layer("MSShapeGroup", <<Grey>>, <<>>, 40, 30),
      Layer("MSShapeGroup", <<Black>>, <<>>, 60, 20),
      Layer("MSShapeGroup", <<>>, <<>>, 40, 20),
      Layer("MSTextLayer", <<>>, <<>>, 40, 20),
      Layer("MSSymbolInstance", <<>>,
            <<Child("MSTextLayer", <<>>), Child("MSShapeGroup", <<Green>>)>>,
            40, 20),
      Layer("MSSymbolMaster", <<>>,
            <<Child("MSShapeGroup", <<Rose>>)>>, 40, 20) }

ArtboardWidths == {100, 400}

\* The k-th layer of the document sits at its own place before the command.
Placed(layer, k) == [layer EXCEPT !.left = 100 * k, !.top = 7 + 50 * k]

Artboard(w, kids) ==
    [kind |-> "MSArtboardGroup", name |-> "Artboard", fills |-> <<>>,
     children |-> <<>>, layers |-> kids,
     left |-> 0, top |-> 0, width |-> w, height |-> 300]

Ids(n) == [k \in 1..n |-> k]

TypeOK ==
    /\ pc \in {"Idle", "Validating", "FailedNoSelection", "Filtering",
               "FailedNoColorable", "Aborted", "Preparing", "Sorting",
               "BeginLayout", "LayingOut", "Done"}
    /\ artboard \in 0..Len(doc)
    /\ Range(layers) \subseteq 1..Len(doc)
    /\ Range(pageLayers) \subseteq 1..Len(doc)
    /\ i \in 1..(Len(layers) + 1)
    /\ lastFrame \in 0..Len(doc)

Init ==
    /\ pc = "Idle"
    /\ \E n \in 0..MaxLayers :
       \E content \in [1..n -> LayerTemplates] :
          LET kids == [k \in 1..n |-> Placed(content[k], k)]
          IN  \/ \* the selected layers lie on the page
                 /\ doc = kids
                 /\ pageLayers = Ids(n)
                 /\ selection = Ids(n)
              \/ \* one artboard is selected
                 \E w \in ArtboardWidths :
                    /\ doc = Append(kids, Artboard(w, Ids(n)))
                    /\ pageLayers = <<n + 1>>
                    /\ selection = <<n + 1>>
              \/ \* the selected layers lie in an artboard that is not selected
                 /\ n > 0
                 /\ doc = Append(kids, Artboard(NewArtboardSize, Ids(n)))
                 /\ pageLayers = <<n + 1>>
                 /\ selection = Ids(n)
    /\ layers = <<>>
    /\ artboard = NullId
    /\ messages = <<>>
    /\ height = 0
    /\ lastFrame = NullId
    /\ i = 1
    /\ doc0 = doc
    /\ page0 = pageLayers

-----------------------------------------------------------------------------
(* sortByHue, statement group by statement group *)

\* let layers = context.selection; the single-artboard switch
ContainerSwitch ==
    /\ pc = "Idle"
    /\ IF Len(selection) = 1 /\ isKindOfClass(doc[selection[1]], "MSArtboardGroup")
       THEN /\ artboard' = selection[1]
            /\ layers' = doc[selection[1]].layers
       ELSE /\ artboard' = NullId
            /\ layers' = selection
    /\ pc' = "Validating"
    /\ UNCHANGED <<selection, doc, pageLayers, messages, height, lastFrame, i,
                   doc0, page0>>

\* if (layers.length < 1) { showMessage; return }
CheckSelection ==
    /\ pc = "Validating"
    /\ IF noSelection(layers)
       THEN /\ messages' = Append(messages, "No layers selected!")
            /\ pc' = "FailedNoSelection"
       ELSE /\ messages' = messages
            /\ pc' = "Filtering"
    /\ UNCHANGED <<selection, doc, pageLayers, layers, artboard, height,
                   lastFrame, i, doc0, page0>>

\* layers = getLayersWithBackgroundColor(layers); the second early return
Filter ==
    /\ pc = "Filtering"
    /\ LET res == getLayersWithBackgroundColor(doc, layers)
       IN  IF res.threw
           THEN /\ pc' = "Aborted"
                /\ UNCHANGED <<layers, messages>>
           ELSE /\ layers' = res.value
                /\ IF Len(res.value) < 1
                   THEN /\ messages' = Append(messages,
                                         "No layers with background selected!")
                        /\ pc' = "FailedNoColorable"
                   ELSE /\ messages' = messages
                        /\ pc' = "Preparing"
    /\ UNCHANGED <<selection, doc, pageLayers, artboard, height, lastFrame, i,
                   doc0, page0>>

\* if (!artboard) { create it, copy the layers into it, remove the originals,
\* filter its children again }
Prepare ==
    /\ pc = "Preparing"
    /\ IF artboard = NullId
       THEN LET n      == Len(doc)
                m      == Len(layers)
                kids   == [k \in 1..m |-> n + 1 + k]
                copies == [k \in 1..m |-> doc[layers[k]]]
                gone   == Range(layers)
                added  == doc \o <<newArtboard(doc[layers[1]], kids)>> \o copies
                d2     == [id \in 1..Len(added) |->
                             IF id = n + 1 THEN added[id]
                             ELSE [added[id] EXCEPT
                                     !.layers = removeFromParent(@, gone)]]
                res    == getLayersWithBackgroundColor(d2, d2[n + 1].layers)
            IN  /\ artboard' = n + 1
                /\ doc' = d2
                /\ pageLayers' = removeFromParent(Append(pageLayers, n + 1), gone)
                /\ IF res.threw
                   THEN /\ pc' = "Aborted"
                        /\ layers' = layers
                   ELSE /\ pc' = "Sorting"
                        /\ layers' = res.value
       ELSE /\ pc' = "Sorting"
            /\ UNCHANGED <<doc, pageLayers, layers, artboard>>
    /\ UNCHANGED <<selection, messages, height, lastFrame, i, doc0, page0>>

\* sortLayersByHue(layers)
Sort ==
    /\ pc = "Sorting"
    /\ IF \E k \in 1..Len(layers) : getLayerBackground(doc[layers[k]]).threw
       THEN /\ pc' = "Aborted"
            /\ layers' = layers
       ELSE /\ \E sorted \in sortLayersByHue(doc, layers) : layers' = sorted
            /\ pc' = "BeginLayout"
    /\ UNCHANGED <<selection, doc, pageLayers, artboard, messages, height,
                   lastFrame, i, doc0, page0>>

\* let height = layers[0].frame().height() + 10; let lastFrame = null
BeginLayout ==
    /\ pc = "BeginLayout"
    /\ height' = initialHeight(doc[layers[1]])
    /\ lastFrame' = NullId
    /\ i' = 1
    /\ pc' = "LayingOut"
    /\ UNCHANGED <<selection, doc, pageLayers, layers, artboard, messages,
                   doc0, page0>>

\* one call of the layout forEach callback
LayoutStep ==
    /\ pc = "LayingOut"
    /\ i <= Len(layers)
    /\ LET id    == layers[i]
           frame == doc[id]
       IN  /\ IF lastFrame = NullId
              THEN /\ doc' = [doc EXCEPT ![id] = placeFirst(frame)]
                   /\ height' = height
              ELSE IF newRow(doc[lastFrame], frame, doc[artboard])
              THEN /\ doc' = [doc EXCEPT ![id] = placeNewRow(doc[lastFrame], frame)]
                   /\ height' = height + rowIncrement(frame)
              ELSE /\ doc' = [doc EXCEPT ![id] = placeSameRow(doc[lastFrame], frame)]
                   /\ height' = height
           /\ lastFrame' = id
    /\ i' = i + 1
    /\ UNCHANGED <<pc, selection, pageLayers, layers, artboard, messages,
                   doc0, page0>>

\* parentFrame.height = height
FinishLayout ==
    /\ pc = "LayingOut"
    /\ i > Len(layers)
    /\ doc' = [doc EXCEPT ![artboard].height = height]
    /\ pc' = "Done"
    /\ UNCHANGED <<selection, pageLayers, layers, artboard, messages, height,
                   lastFrame, i, doc0, page0>>

Next ==
    \/ ContainerSwitch
    \/ CheckSelection
    \/ Filter
    \/ Prepare
    \/ Sort
    \/ BeginLayout
    \/ LayoutStep
    \/ FinishLayout

Spec == Init /\ [][Next]_vars

-----------------------------------------------------------------------------
(* Vocabulary of the properties *)

Terminal == pc \in {"FailedNoSelection", "FailedNoColorable", "Aborted", "Done"}

SingleArtboardSelected ==
    Len(selection) = 1 /\ doc0[selection[1]].kind = "MSArtboardGroup"

\* The layers the command works on: the selection, or the children of the
\* single selected artboard.
WorkingSet ==
    IF SingleArtboardSelected THEN doc0[selection[1]].layers ELSE selection

IsShape(x) == x.kind = "MSShapeGroup"

IsSymbol(x) == x.kind \in {"MSSymbolInstance", "MSSymbolMaster"}

HasShapeChild(x) == \E k \in 1..Len(x.children) : IsShape(x.children[k])

FirstShapeChild(x) ==
    x.children[CHOOSE k \in 1..Len(x.children) :
                  /\ IsShape(x.children[k])
                  /\ \A j \in 1..(k - 1) : ~IsShape(x.children[j])]

\* A background color can be extracted: a shape with a fill, or a symbol
\* whose first shape child has a fill.
Extractable(x) ==
    \/ IsShape(x) /\ Len(x.fills) > 0
    \/ IsSymbol(x) /\ HasShapeChild(x) /\ Len(FirstShapeChild(x).fills) > 0

\* The selected layers that passed the first filter.
Filtered == SelectSeq(selection, LAMBDA id : getLayerBackground(doc0[id]).value # Null)

Sorted == pc \in {"BeginLayout", "LayingOut", "Done"}

\* Number of layers the layout pass has placed so far.
PlacedCount == IF pc = "Done" THEN Len(layers) ELSE i - 1

Key(id) ==
    LET c == getLayerBackground(doc[id]).value
    IN  IF c = Null THEN 0 ELSE constructLayerColor(doc[id]).hue

StartedNewRow(k) == k > 1 /\ doc[layers[k]].top # doc[layers[k - 1]].top

RECURSIVE RowBreakSum(_)
RowBreakSum(k) ==
    IF k < 2 THEN 0
    ELSE RowBreakSum(k - 1)
         + (IF StartedNewRow(k) THEN doc[layers[k]].height + 5 ELSE 0)

Overlap(a, b) ==
    /\ a.left < b.left + b.width
    /\ b.left < a.left + a.width
    /\ a.top < b.top + b.height
    /\ b.top < a.top + a.height

UniformHeights == \A x, y \in Range(layers) : doc[x].height = doc[y].height

NarrowEnough == \A x \in Range(layers) : doc[x].width <= doc[artboard].width - 15

ExampleLayout ==
    /\ pc = "Done"
    /\ doc[artboard].width = 100
    /\ Len(layers) = 3
    /\ \A x \in Range(layers) : doc[x].width = 40 /\ doc[x].height = 20

-----------------------------------------------------------------------------
(* Properties *)

\* C1: after sortLayersByHue the list is a permutation of the filtered list
\* it was given, its hue keys (0 for no background color, else the hue of
\* the color) are non-decreasing, and the layout pass places the layers in
\* that order (reading order of the placed frames follows the list).
C1_SortedByHue ==
    Sorted =>
        LET input == getLayersWithBackgroundColor(doc, doc[artboard].layers).value
        IN  /\ Len(layers) = Len(input)
            /\ Range(layers) = Range(input)
            /\ \A x, y \in 1..Len(layers) : x # y => layers[x] # layers[y]
            /\ \A k \in 1..(Len(layers) - 1) : Key(layers[k]) <= Key(layers[k + 1])
            /\ pc \in {"LayingOut", "Done"} =>
                 /\ lastFrame = (IF PlacedCount = 0 THEN NullId
                                 ELSE layers[PlacedCount])
                 /\ \A x, y \in 1..PlacedCount :
                       x < y =>
                          \/ doc[layers[x]].top < doc[layers[y]].top
                          \/ /\ doc[layers[x]].top = doc[layers[y]].top
                             /\ doc[layers[x]].left < doc[layers[y]].left

C1_Witness ==
    /\ pc = "Done"
    /\ Len(layers) = 3
    /\ Key(layers[1]) < Key(layers[2])
    /\ Key(layers[2]) < Key(layers[3])
    /\ layers # getLayersWithBackgroundColor(doc, doc[artboard].layers).value

\* C2: the first sorted layer is placed at (5, 5); a later layer L with
\* predecessor P goes to (5, P.top + P.height + 5) exactly when
\* P.left + P.width + 5 + L.width > container.width - 10 and otherwise to
\* (P.left + P.width + 5, P.top); container width 100 with three 40 x 20
\* layers gives (5,5), (50,5), (5,30).
C2_Placement ==
    /\ pc \in {"LayingOut", "Done"} =>
         \A k \in 1..PlacedCount :
            LET L == doc[layers[k]]
            IN  IF k = 1
                THEN L.left = 5 /\ L.top = 5
                ELSE LET P == doc[layers[k - 1]]
                     IN  IF P.left + P.width + 5 + L.width > doc[artboard].width - 10
                         THEN L.left = 5 /\ L.top = P.top + P.height + 5
                         ELSE L.left = P.left + P.width + 5 /\ L.top = P.top
    /\ ExampleLayout =>
         /\ doc[layers[1]].left = 5  /\ doc[layers[1]].top = 5
         /\ doc[layers[2]].left = 50 /\ doc[layers[2]].top = 5
         /\ doc[layers[3]].left = 5  /\ doc[layers[3]].top = 30

C2_Witness ==
    /\ ExampleLayout
    /\ doc[layers[2]].top = doc[layers[1]].top
    /\ doc[layers[3]].top # doc[layers[2]].top

\* C3: at Done the container's height is (height of the first sorted layer
\* + 10) plus the sum of (L.height + 5) over the layers L that started a new
\* row, and its width is the one it had when layout began: 600 for a created
\* container, the earlier width for a selected one.
C3_ContainerSize ==
    pc = "Done" =>
        /\ doc[artboard].height =
              doc[layers[1]].height + 10 + RowBreakSum(Len(layers))
        /\ doc[artboard].width =
              (IF artboard > Len(doc0) THEN 600 ELSE doc0[artboard].width)
        /\ ExampleLayout => doc[artboard].height = 55

C3_Witness ==
    /\ pc = "Done"
    /\ Len(layers) = 3
    /\ StartedNewRow(2)
    /\ ~StartedNewRow(3)
    /\ doc[layers[2]].height # doc[layers[1]].height

\* C4: with an empty selection the run emits exactly the one message
\* "No layers selected!" and ends without changing the document.
C4_EmptySelection ==
    selection = <<>> =>
        /\ pc \in {"Idle", "Validating", "FailedNoSelection"}
        /\ doc = doc0
        /\ pageLayers = page0
        /\ messages = (IF pc = "FailedNoSelection"
                       THEN <<"No layers selected!">> ELSE <<>>)

C4_Witness ==
    /\ selection = <<>>
    /\ pc = "FailedNoSelection"
    /\ messages = <<"No layers selected!">>

\* C5: whenever the working set (a non-empty selection, or the children of
\* the single selected container, possibly none) holds no layer with an
\* extractable background color, the run ends with exactly the message
\* "No layers with background selected!" and an unchanged document.
C5_NoColorableLayers ==
    (/\ Terminal
     /\ selection # <<>>
     /\ \A k \in 1..Len(WorkingSet) : ~Extractable(doc0[WorkingSet[k]]))
    =>  /\ pc = "FailedNoColorable"
        /\ messages = <<"No layers with background selected!">>
        /\ doc = doc0
        /\ pageLayers = page0

\* C6: for a symbol instance or symbol definition, getLayerBackground gives
\* the first-fill color of the first child that is a shape, and none only
\* when no child is a shape; such a symbol passes the colorable-layer filter.
C6_SymbolBackground ==
    pc \in {"FailedNoColorable", "Preparing"} =>
        \A k \in 1..Len(WorkingSet) :
            LET x == doc0[WorkingSet[k]]
            IN  (IsSymbol(x) /\ Extractable(x)) =>
                    /\ getLayerBackground(x) = Return(FirstShapeChild(x).fills[1])
                    /\ WorkingSet[k] \in Range(layers)

\* C7: at Done, when the selection was not a single container, exactly one
\* container was added to the page, 600 wide, at the original left/top of
\* the first filtered layer, holding one duplicate of each filtered layer;
\* the filtered originals are detached, and the selected layers that failed
\* the filter are neither duplicated, detached nor moved.  When a single
\* container was selected nothing is created, duplicated or detached.
C7_Containers ==
    pc = "Done" =>
        IF SingleArtboardSelected
        THEN /\ Len(doc) = Len(doc0)
             /\ pageLayers = page0
             /\ \A id \in 1..Len(doc) : doc[id].layers = doc0[id].layers
        ELSE LET old == 1..Len(doc0)
                 a   == Len(doc0) + 1
                 m   == Len(Filtered)
             IN  /\ Len(doc) = Len(doc0) + 1 + m
                 /\ artboard = a
                 /\ doc[a].kind = "MSArtboardGroup"
                 /\ Cardinality({k \in 1..Len(pageLayers) : pageLayers[k] \notin old}) = 1
                 /\ a \in Range(pageLayers)
                 /\ doc[a].width = 600
                 /\ doc[a].left = doc0[Filtered[1]].left
                 /\ doc[a].top = doc0[Filtered[1]].top
                 /\ doc[a].layers = [k \in 1..m |-> a + k]
                 /\ \A k \in 1..m :
                       /\ doc[a + k].kind = doc0[Filtered[k]].kind
                       /\ doc[a + k].fills = doc0[Filtered[k]].fills
                       /\ doc[a + k].width = doc0[Filtered[k]].width
                       /\ doc[a + k].height = doc0[Filtered[k]].height
                       /\ Filtered[k] \notin Range(pageLayers)
                       /\ \A id \in 1..Len(doc) : Filtered[k] \notin Range(doc[id].layers)
                 /\ \A id \in Range(selection) \ Range(Filtered) :
                       /\ doc[id] = doc0[id]
                       /\ id \in Range(page0) => id \in Range(pageLayers)
                       /\ \A p \in old :
                             id \in Range(doc0[p].layers) => id \in Range(doc[p].layers)
                       /\ id \notin Range(doc[a].layers)

C7_Witness ==
    /\ pc = "Done"
    /\ ~SingleArtboardSelected
    /\ Len(Filtered) = 2
    /\ Len(selection) = 3
    /\ Range(selection) \subseteq Range(page0)

\* C8 (as claimed): the color (1.0, 1.0, 0.5) resolves via the r-branch and
\* yields hue 0.
C8_TieHueZero ==
    Sorted =>
        \A id \in Range(layers) :
            doc[id].fills[1] = <<2, 2, 1>> =>
                /\ hueBranch(2, 2, 1) = "r"
                /\ constructLayerColor(doc[id]).hue = 0

\* C8 (amended): the color (1.0, 1.0, 0.5), where r and g tie at the
\* maximum, resolves via the r-branch and yields hue 60.
C8_TieHueSixty ==
    Sorted =>
        \A id \in Range(layers) :
            doc[id].fills[1] = <<2, 2, 1>> =>
                /\ hueBranch(2, 2, 1) = "r"
                /\ constructLayerColor(doc[id]).hue = 60

C8_Witness ==
    /\ pc = "Done"
    /\ \E id \in Range(layers) : doc[id].fills[1] = <<2, 2, 1>>

\* C9: getLayerBackground on a shape with an empty fill list returns none
\* without raising, so a run whose working set holds such a shape never
\* aborts: it ends in Failed: no-colorable-layers or Done with that shape
\* left out by the filter.
C9_EmptyFillsNoAbort ==
    \A k \in 1..Len(WorkingSet) :
        LET x == doc0[WorkingSet[k]]
        IN  (IsShape(x) /\ x.fills = <<>>) =>
                /\ pc # "Aborted"
                /\ Terminal =>
                     /\ pc \in {"FailedNoColorable", "Done"}
                     /\ getLayerBackground(x) = Return(Null)
                     /\ WorkingSet[k] \notin Range(layers)

\* C10: if all laid-out layers have the same height and each is at most
\* container.width - 15 wide, then at Done no two laid-out frames overlap
\* and each lies inside the container with the margins kept.
C10_NoOverlapInside ==
    (pc = "Done" /\ UniformHeights /\ NarrowEnough) =>
        /\ \A x, y \in Range(layers) : x # y => ~Overlap(doc[x], doc[y])
        /\ \A x \in Range(layers) :
              /\ doc[x].left >= 5
              /\ doc[x].left + doc[x].width <= doc[artboard].width - 10
              /\ doc[x].top >= 5
              /\ doc[x].top + doc[x].height + 5 <= doc[artboard].height

C10_Witness ==
    /\ pc = "Done"
    /\ UniformHeights
    /\ NarrowEnough
    /\ Len(layers) = 3
    /\ StartedNewRow(3)
    /\ ~StartedNewRow(2)

====
